---- MODULE Spec2Model ----
(***************************************************************************)
(* Model of the Freshdesk plugin: the agent tool FreshdeskTool.invoke      *)
(* (python-agent-tools/freshdesk-tool/tool.py) and the extraction recipe   *)
(* (custom-recipes/freshdesk-tickets-fetcher/recipe.py).                   *)
(*                                                                         *)
(* Python dicts are functions whose DOMAIN is the set of keys present.     *)
(* f-strings are tuples of their parts.  Every HTTP request is one step:   *)
(* the request is appended to the log together with the answer the         *)
(* Freshdesk API gave (an input, drawn from a small set).                  *)
(***************************************************************************)
EXTENDS Integers, Sequences, FiniteSets, TLC

VARIABLES
    ticket_types,   \* tool: self.ticket_types (set_config)
    pc,             \* tool: position of the running invocation
    args,           \* tool: input["input"]
    http,           \* tool: the requests issued so far, with their answers
    ticket,         \* tool: the ticket returned by the authorizing GET
    result,         \* tool: the body returned by the PUT
    outcome,        \* tool: the value returned or the exception raised
    jpc,            \* recipe: position of the job
    ticket_statuses,\* recipe: config["ticket_statuses"]
    url,            \* recipe: the search URL built before the loop
    page,           \* recipe: the page counter of fetch_tickets
    all_tickets,    \* recipe: the accumulated tickets
    searches,       \* recipe: the search requests issued so far
    pages,          \* recipe: the result list each answered page carried
    idx,            \* recipe: position of the for loop of fetch_conversations
    conv_reqs,      \* recipe: the conversation requests issued so far
    dataset,        \* recipe: the frames written to the output dataset
    job_error       \* recipe: the exception that ended the job, if any

toolVars == <<ticket_types, pc, args, http, ticket, result, outcome>>
jobVars == <<jpc, ticket_statuses, url, page, all_tickets, searches, pages,
             idx, conv_reqs, dataset, job_error>>
vars == <<toolVars, jobVars>>

----------------------------------------------------------------------------
(* Bounds of the model *)

MaxTicketId == 2
MaxListLen == 2
MaxPages == 3
MaxPageLen == 2

(* Values *)

NoneVal == "<None>"
Domain == "acme.freshdesk.com"
TypeNames == {"Question", "Incident"}
TypeLists == {<<>>, <<"Question">>, <<"Question", "Incident">>}
Emails == {"ann@acme.io", "bob@acme.io"}
TicketIds == 1..MaxTicketId

Has(d, k) == k \in DOMAIN d

Opt(k, V) == {<<>>} \cup {k :> v : v \in V}

----------------------------------------------------------------------------
(* The tool's inputs *)

ActionNames == {"create_ticket", "get_tickets", "close_ticket",
                "update_ticket_priority", "get_ticket_by_id",
                "get_tickets_by_email", "delete_ticket"}

EmailInputs == Emails \cup {NoneVal}

CreateInputs ==
    {("action" :> "create_ticket") @@ s @@ d @@ e @@ n @@ p @@ st @@ ty @@ tg :
        s \in Opt("subject", {"Printer down"}),
        d \in Opt("description", {"It does not print"}),
        e \in Opt("requester_email", {"ann@acme.io"}),
        n \in Opt("name", {"Ann"}),
        p \in Opt("priority", {0, 1, 4, 5}),
        st \in Opt("status", {1, 2, 5, 6}),
        ty \in Opt("type", TypeNames \cup {"Bogus"}),
        tg \in Opt("tags", {<<"hw">>})}

GetInputs ==
    {("action" :> "get_tickets") @@ sb @@ t @@ e :
        sb \in Opt("search_by", {"id", "requester_email", "subject"}),
        t \in Opt("ticket_id", TicketIds),
        e \in Opt("requester_email", EmailInputs)}

CloseInputs ==
    {("action" :> "close_ticket") @@ t @@ e :
        t \in Opt("ticket_id", TicketIds),
        e \in Opt("requester_email", EmailInputs)}

PriorityInputs ==
    {("action" :> "update_ticket_priority") @@ t @@ e @@ p :
        t \in Opt("ticket_id", TicketIds),
        e \in Opt("requester_email", EmailInputs),
        p \in Opt("priority", {0, 1, 3, 4, 5})}

OtherInputs ==
    {("action" :> a) @@ t @@ e :
        a \in ActionNames \ {"create_ticket", "get_tickets", "close_ticket",
                             "update_ticket_priority"},
        t \in Opt("ticket_id", TicketIds),
        e \in Opt("requester_email", EmailInputs)}

ToolInputs == CreateInputs \cup GetInputs \cup CloseInputs
              \cup PriorityInputs \cup OtherInputs

----------------------------------------------------------------------------
(* What an invocation ends in, and the texts of the errors *)

NoOutcome == [kind |-> "none"]
Proceed(next) == [kind |-> "proceed", next |-> next]
ValueError(m) == [kind |-> "ValueError", msg |-> m]
RequestException == [kind |-> "RequestException"]
AttributeError == [kind |-> "AttributeError"]

MissingField(f) == ValueError(<<"Missing required field: ", f>>)
PriorityError ==
    ValueError(<<"Priority must be one of: 1 (Low), 2 (Medium), 3 (High), 4 (Urgent)">>)
StatusError ==
    ValueError(<<"Status must be one of: 2 (Open), 3 (Pending), 4 (Resolved), 5 (Closed)">>)
TypeError(types) == ValueError(<<"Type must be one of: ", types>>)
EmailMismatch ==
    ValueError(<<"The provided requester email does not match the ticket's requester email">>)
InvalidSearchBy(s) == ValueError(<<"Invalid search_by value: ", s>>)
InvalidAction(a) == ValueError(<<"Invalid action: ", a>>)

ValidPriorities == {1, 2, 3, 4}
ValidStatuses == {2, 3, 4, 5}
ClosedStatus == 5
DefaultPriority == 1
DefaultStatus == 2

Range(s) == {s[i] : i \in DOMAIN s}

(* for field in required_fields: if field not in args: raise ... *)
RECURSIVE FirstMissing(_, _)
FirstMissing(a, fields) ==
    IF fields = <<>> THEN NoneVal
    ELSE IF ~Has(a, Head(fields)) THEN Head(fields)
    ELSE FirstMissing(a, Tail(fields))

ValidateCreateNoPriority(a, types) ==
    LET m == FirstMissing(a, <<"subject", "description", "requester_email", "name">>)
    IN  IF m # NoneVal THEN MissingField(m)
        ELSE IF Has(a, "status") /\ a.status \notin ValidStatuses
            THEN StatusError
        ELSE IF Has(a, "type") /\ a.type \notin Range(types)
            THEN TypeError(types)
        ELSE Proceed("create_post")

ValidateCreate(a, types) ==
    LET m == FirstMissing(a, <<"subject", "description", "requester_email", "name">>)
    IN  IF m # NoneVal THEN MissingField(m)
        ELSE IF Has(a, "priority") /\ a.priority \notin ValidPriorities
            THEN PriorityError
        ELSE IF Has(a, "status") /\ a.status \notin ValidStatuses
            THEN StatusError
        ELSE IF Has(a, "type") /\ a.type \notin Range(types)
            THEN TypeError(types)
        ELSE Proceed("create_post")

ValidateGet(a) ==
    IF ~Has(a, "search_by") THEN MissingField("search_by")
    ELSE IF a.search_by = "id" THEN
        IF ~Has(a, "ticket_id") THEN MissingField("ticket_id")
        ELSE IF ~Has(a, "requester_email") THEN MissingField("requester_email")
        ELSE Proceed("get_by_id")
    ELSE IF a.search_by = "requester_email" THEN
        IF ~Has(a, "requester_email") THEN MissingField("requester_email")
        ELSE Proceed("get_by_email")
    ELSE InvalidSearchBy(a.search_by)

ValidateClose(a) ==
    LET m == FirstMissing(a, <<"ticket_id", "requester_email">>)
    IN  IF m # NoneVal THEN MissingField(m) ELSE Proceed("close_get")

ValidatePriority(a) ==
    LET m == FirstMissing(a, <<"ticket_id", "requester_email", "priority">>)
    IN  IF m # NoneVal THEN MissingField(m)
        ELSE IF a.priority \notin ValidPriorities THEN PriorityError
        ELSE Proceed("priority_get")

DispatchAliased(a, types) ==
    IF a.action = "create_ticket" THEN ValidateCreate(a, types)
    ELSE IF a.action \in {"get_tickets", "get_ticket_by_id"} THEN ValidateGet(a)
    ELSE IF a.action = "close_ticket" THEN ValidateClose(a)
    ELSE IF a.action = "update_ticket_priority" THEN ValidatePriority(a)
    ELSE InvalidAction(a.action)

(* the if / elif chain over action *)
Dispatch(a, types) ==
    IF a.action = "create_ticket" THEN ValidateCreate(a, types)
    ELSE IF a.action = "get_tickets" THEN ValidateGet(a)
    ELSE IF a.action = "close_ticket" THEN ValidateClose(a)
    ELSE IF a.action = "update_ticket_priority" THEN ValidatePriority(a)
    ELSE InvalidAction(a.action)

----------------------------------------------------------------------------
(* Requests and the answers of the Freshdesk API *)

Request(method, endpoint, data, params, ok) ==
    [method |-> method, endpoint |-> endpoint, data |-> data,
     params |-> params, ok |-> ok]

Failed == [ok |-> FALSE]
Answer(body) == [ok |-> TRUE, body |-> body]

NullObj == "<None>" :> TRUE

RequesterValues ==
    {NullObj, <<>>} \cup {"email" :> e : e \in Emails \cup {NoneVal}}

FetchedTickets ==
    {("id" :> i) @@ r @@ s @@ p :
        i \in TicketIds,
        r \in Opt("requester", RequesterValues),
        s \in Opt("status", {2, ClosedStatus}),
        p \in Opt("priority", {1, 3})}

UpdatedTickets == {"id" :> i : i \in TicketIds}

(* a listed ticket may already carry a key "url" *)
StaleUrl == <<"https://", "elsewhere.example", "/t">>

ListedTicket ==
    {("id" :> i) @@ u : i \in TicketIds, u \in Opt("url", {StaleUrl})}

ListedTickets ==
    UNION {[1..n -> ListedTicket] : n \in 0..MaxListLen}

TicketAnswers == {Failed} \cup {Answer(t) : t \in FetchedTickets}
UpdateAnswers == {Failed} \cup {Answer(t) : t \in UpdatedTickets}
ListAnswers == {Failed} \cup {Answer(l) : l \in ListedTickets}
NoteAnswers == {Failed, Answer(<<>>)}

(* ticket.get("requester", {}).get("email") *)
RequesterIsNone(t) == Has(t, "requester") /\ t.requester = NullObj
RequesterEmail(t) ==
    LET r == IF Has(t, "requester") THEN t.requester ELSE <<>>
    IN  IF Has(r, "email") THEN r.email ELSE NoneVal

AuthorizeAlways(t, a) ==
    IF RequesterIsNone(t) THEN AttributeError ELSE Proceed("authorized")

Authorize(t, a) ==
    IF RequesterIsNone(t) THEN AttributeError
    ELSE IF RequesterEmail(t) # a.requester_email THEN EmailMismatch
    ELSE Proceed("authorized")

AlreadyClosedResolved(t) == Has(t, "status") /\ t.status = 4

AlreadyClosed(t) == Has(t, "status") /\ t.status = ClosedStatus
AlreadyAtPriorityDefault(t, a) == Has(t, "priority") /\ t.priority = DefaultPriority

AlreadyAtPriority(t, a) == Has(t, "priority") /\ t.priority = a.priority

TicketData(a) ==
    [subject |-> a.subject, description |-> a.description,
     email |-> a.requester_email, name |-> a.name,
     priority |-> IF Has(a, "priority") THEN a.priority ELSE DefaultPriority,
     status |-> IF Has(a, "status") THEN a.status ELSE DefaultStatus]
    @@ (IF Has(a, "type") THEN "type" :> a.type ELSE <<>>)
    @@ (IF Has(a, "tags") THEN "tags" :> a.tags ELSE <<>>)

CloseData == [status |-> ClosedStatus]
PriorityData(a) == [priority |-> a.priority]

PriorityLevels == (1 :> "Low") @@ (2 :> "Medium") @@ (3 :> "High") @@ (4 :> "Urgent")

CloseNote(a) ==
    [body |-> <<"Ticket closed as requested by the original requester (",
                a.requester_email, ")">>,
     private |-> FALSE]
PriorityNote(a) ==
    [body |-> <<"Ticket priority updated to ", PriorityLevels[a.priority],
                " as requested by the original requester (",
                a.requester_email, ")">>,
     private |-> FALSE]

TicketUrlApi(id) == <<"https://", Domain, "/api/v2/tickets/", id>>

TicketUrl(id) == <<"https://", Domain, "/helpdesk/tickets/", id>>
SourceItem(id) ==
    [type |-> "SIMPLE_DOCUMENT", title |-> <<"Ticket #", id>>, url |-> TicketUrl(id)]

Success(message, t, description) ==
    [kind |-> "ok",
     output |-> [message |-> message, ticket_id |-> t.id,
                 url |-> TicketUrl(t.id), ticket |-> t],
     sources |-> <<[toolCallDescription |-> description,
                    items |-> <<SourceItem(t.id)>>]>>]

ListSuccess(l, a) ==
    [kind |-> "ok",
     output |-> [message |-> <<"Found ", Len(l), " tickets for requester ",
                               a.requester_email>>,
                 tickets |-> [i \in DOMAIN l |->
                                ("url" :> TicketUrl(l[i].id)) @@ l[i]]],
     sources |-> <<[toolCallDescription |->
                        <<"Retrieved Freshdesk tickets for requester: ",
                          a.requester_email>>,
                    items |-> [i \in DOMAIN l |-> SourceItem(l[i].id)]]>>]

----------------------------------------------------------------------------
(* FreshdeskTool.invoke, one step per request *)

Finish(o) == pc' = "done" /\ outcome' = o

(* invoke: args and action are read, the branch of the action validates *)
Invoke ==
    /\ pc = "idle"
    /\ \E a \in ToolInputs :
        /\ args' = a
        /\ LET v == Dispatch(a, ticket_types)
           IN  IF v.kind = "proceed"
               THEN pc' = v.next /\ outcome' = NoOutcome
               ELSE Finish(v)
    /\ UNCHANGED <<ticket_types, http, ticket, result, jobVars>>

(* create_ticket: POST tickets *)
CreatePost ==
    /\ pc = "create_post"
    /\ \E r \in UpdateAnswers :
        /\ http' = Append(http, Request("POST", <<"tickets">>, TicketData(args),
                                        <<>>, r.ok))
        /\ IF r.ok
           THEN Finish(Success("Ticket created successfully", r.body,
                    <<"Created Freshdesk ticket with subject: ", args.subject>>))
           ELSE Finish(RequestException)
    /\ UNCHANGED <<ticket_types, args, ticket, result, jobVars>>

(* get_tickets, search_by = id: GET tickets/{id}, then the email check *)
GetById ==
    /\ pc = "get_by_id"
    /\ \E r \in TicketAnswers :
        /\ http' = Append(http, Request("GET", <<"tickets", args.ticket_id>>, <<>>,
                                        [include |-> "requester"], r.ok))
        /\ IF ~r.ok THEN Finish(RequestException)
           ELSE IF Authorize(r.body, args).kind # "proceed"
               THEN Finish(Authorize(r.body, args))
           ELSE Finish(Success("Ticket retrieved successfully", r.body,
                    <<"Retrieved Freshdesk ticket #", args.ticket_id>>))
        /\ ticket' = IF r.ok THEN r.body ELSE ticket
    /\ UNCHANGED <<ticket_types, args, result, jobVars>>

(* get_tickets, search_by = requester_email: GET tickets?email= *)
GetByEmail ==
    /\ pc = "get_by_email"
    /\ \E r \in ListAnswers :
        /\ http' = Append(http, Request("GET", <<"tickets">>, <<>>,
                                        [email |-> args.requester_email], r.ok))
        /\ IF r.ok THEN Finish(ListSuccess(r.body, args))
           ELSE Finish(RequestException)
    /\ UNCHANGED <<ticket_types, args, ticket, result, jobVars>>

(* close_ticket: the authorizing GET, the email check, the status check *)
CloseGet ==
    /\ pc = "close_get"
    /\ \E r \in TicketAnswers :
        /\ http' = Append(http, Request("GET", <<"tickets", args.ticket_id>>, <<>>,
                                        [include |-> "requester"], r.ok))
        /\ IF ~r.ok THEN Finish(RequestException)
           ELSE IF Authorize(r.body, args).kind # "proceed"
               THEN Finish(Authorize(r.body, args))
           ELSE IF AlreadyClosed(r.body)
               THEN Finish(Success("Ticket is already closed", r.body,
                        <<"Checked status of Freshdesk ticket #", args.ticket_id>>))
           ELSE pc' = "close_put" /\ outcome' = outcome
        /\ ticket' = IF r.ok THEN r.body ELSE ticket
    /\ UNCHANGED <<ticket_types, args, result, jobVars>>

ClosePutSwallowed ==
    /\ pc = "close_put"
    /\ \E r \in UpdateAnswers :
        /\ http' = Append(http, Request("PUT", <<"tickets", args.ticket_id>>,
                                        CloseData, <<>>, r.ok))
        /\ pc' = "close_note"
        /\ result' = IF r.ok THEN r.body ELSE [id |-> args.ticket_id]
        /\ outcome' = outcome
    /\ UNCHANGED <<ticket_types, args, ticket, jobVars>>

(* close_ticket: PUT tickets/{id} with status 5 *)
ClosePut ==
    /\ pc = "close_put"
    /\ \E r \in UpdateAnswers :
        /\ http' = Append(http, Request("PUT", <<"tickets", args.ticket_id>>,
                                        CloseData, <<>>, r.ok))
        /\ IF r.ok
           THEN pc' = "close_note" /\ result' = r.body /\ outcome' = outcome
           ELSE Finish(RequestException) /\ result' = result
    /\ UNCHANGED <<ticket_types, args, ticket, jobVars>>

(* close_ticket: POST tickets/{id}/notes, then the result *)
ClosePostNote ==
    /\ pc = "close_note"
    /\ \E r \in NoteAnswers :
        /\ http' = Append(http, Request("POST", <<"tickets", args.ticket_id, "notes">>,
                                        CloseNote(args), <<>>, r.ok))
        /\ IF r.ok
           THEN Finish(Success("Ticket closed successfully", result,
                    <<"Closed Freshdesk ticket #", args.ticket_id>>))
           ELSE Finish(RequestException)
    /\ UNCHANGED <<ticket_types, args, ticket, result, jobVars>>

(* update_ticket_priority: the authorizing GET, the email check, the
   priority check *)
PriorityGet ==
    /\ pc = "priority_get"
    /\ \E r \in TicketAnswers :
        /\ http' = Append(http, Request("GET", <<"tickets", args.ticket_id>>, <<>>,
                                        [include |-> "requester"], r.ok))
        /\ IF ~r.ok THEN Finish(RequestException)
           ELSE IF Authorize(r.body, args).kind # "proceed"
               THEN Finish(Authorize(r.body, args))
           ELSE IF AlreadyAtPriority(r.body, args)
               THEN Finish(Success("Ticket priority is already at the requested level",
                        r.body,
                        <<"Checked priority of Freshdesk ticket #", args.ticket_id>>))
           ELSE pc' = "priority_put" /\ outcome' = outcome
        /\ ticket' = IF r.ok THEN r.body ELSE ticket
    /\ UNCHANGED <<ticket_types, args, result, jobVars>>

(* update_ticket_priority: PUT tickets/{id} with the priority *)
PriorityPut ==
    /\ pc = "priority_put"
    /\ \E r \in UpdateAnswers :
        /\ http' = Append(http, Request("PUT", <<"tickets", args.ticket_id>>,
                                        PriorityData(args), <<>>, r.ok))
        /\ IF r.ok
           THEN pc' = "priority_note" /\ result' = r.body /\ outcome' = outcome
           ELSE Finish(RequestException) /\ result' = result
    /\ UNCHANGED <<ticket_types, args, ticket, jobVars>>

PriorityPostNoteOmitted ==
    /\ pc = "priority_note"
    /\ Finish(Success("Ticket priority updated successfully", result,
            <<"Updated priority of Freshdesk ticket #", args.ticket_id,
              " to ", args.priority>>))
    /\ UNCHANGED <<ticket_types, args, http, ticket, result, jobVars>>

(* update_ticket_priority: POST tickets/{id}/notes, then the result *)
PriorityPostNote ==
    /\ pc = "priority_note"
    /\ \E r \in NoteAnswers :
        /\ http' = Append(http, Request("POST", <<"tickets", args.ticket_id, "notes">>,
                                        PriorityNote(args), <<>>, r.ok))
        /\ IF r.ok
           THEN Finish(Success("Ticket priority updated successfully", result,
                    <<"Updated priority of Freshdesk ticket #", args.ticket_id,
                      " to ", args.priority>>))
           ELSE Finish(RequestException)
    /\ UNCHANGED <<ticket_types, args, ticket, result, jobVars>>

JobIdle ==
    /\ jpc = "off"
    /\ ticket_statuses = <<>>
    /\ url = <<>>
    /\ page = 0
    /\ all_tickets = <<>>
    /\ searches = <<>>
    /\ pages = <<>>
    /\ idx = 0
    /\ conv_reqs = <<>>
    /\ dataset = <<>>
    /\ job_error = NoneVal

(* set_config, before any invocation *)
InitTool ==
    /\ ticket_types \in TypeLists
    /\ pc = "idle"
    /\ args = <<>>
    /\ http = <<>>
    /\ ticket = <<>>
    /\ result = <<>>
    /\ outcome = NoOutcome
    /\ JobIdle

NextTool ==
    \/ Invoke
    \/ CreatePost
    \/ GetById
    \/ GetByEmail
    \/ CloseGet
    \/ ClosePut
    \/ ClosePostNote
    \/ PriorityGet
    \/ PriorityPut
    \/ PriorityPostNote

SpecTool == InitTool /\ [][NextTool]_vars

----------------------------------------------------------------------------
(* The extraction recipe: fetch_tickets *)

StatusLists == {<<>>, <<"open">>, <<"open", "pending">>, <<"pending", "open">>,
                <<"open", "pending", "resolved">>}

RECURSIVE StatusQueryAnd(_)
StatusQueryAnd(statuses) ==
    IF statuses = <<>> THEN <<>>
    ELSE IF Len(statuses) = 1 THEN <<"status:", statuses[1]>>
    ELSE <<"status:", statuses[1], " AND ">> \o StatusQueryAnd(Tail(statuses))

(* " OR ".join([f"status:{status}" for status in ticket_statuses]) *)
RECURSIVE StatusQuery(_)
StatusQuery(statuses) ==
    IF statuses = <<>> THEN <<>>
    ELSE IF Len(statuses) = 1 THEN <<"status:", statuses[1]>>
    ELSE <<"status:", statuses[1], " OR ">> \o StatusQuery(Tail(statuses))

Query(statuses) ==
    IF statuses # <<>>
    THEN <<"query=\"">> \o StatusQuery(statuses) \o <<"\"">>
    ELSE <<"query=\"\"">>

SearchUrl(statuses) ==
    <<"https://", Domain, "/api/v2/search/tickets", "?">> \o Query(statuses)

PaginatedUrl(u, p) == u \o <<"&page=", p>>

(* The tickets the search endpoint lists on page p when it lists n of them;
   with orphan, the first of them carries no id. *)
SearchTicket(p, i) == [id |-> (p - 1) * MaxPageLen + i, subject |-> "Printer down"]
OrphanTicket == [subject |-> "No id"]
PageTickets(p, n, orphan) ==
    [i \in 1..n |-> IF orphan /\ i = 1 THEN OrphanTicket ELSE SearchTicket(p, i)]

PageAnswers(p) ==
    {Failed, Answer(<<>>)}
    \cup {Answer([results |-> PageTickets(p, n, o)]) :
            n \in 0..MaxPageLen, o \in BOOLEAN}

(* data.get("results", []) *)
Results(data) == IF Has(data, "results") THEN data.results ELSE <<>>

(* if not tickets: break *)
NoMorePagesShort(tickets) == Len(tickets) < MaxPageLen

NoMorePages(tickets) == tickets = <<>>

(* the module body up to the loop of fetch_tickets *)
StartFetch ==
    /\ jpc = "start"
    /\ url' = SearchUrl(ticket_statuses)
    /\ all_tickets' = <<>>
    /\ page' = 1
    /\ jpc' = "paging"
    /\ UNCHANGED <<toolVars, ticket_statuses, searches, pages, idx, conv_reqs,
                   dataset, job_error>>

FetchPageSwallowed ==
    /\ jpc = "paging"
    /\ page <= MaxPages
    /\ \E r \in PageAnswers(page) :
        LET tickets == IF r.ok THEN Results(r.body) ELSE <<>>
        IN  /\ searches' = Append(searches, [url |-> PaginatedUrl(url, page),
                                             page |-> page, ok |-> r.ok])
            /\ all_tickets' = all_tickets \o tickets
            /\ pages' = IF r.ok THEN Append(pages, tickets) ELSE pages
            /\ job_error' = job_error
            /\ IF NoMorePages(tickets)
               THEN jpc' = "conversations" /\ idx' = 1 /\ page' = page
               ELSE jpc' = "paging" /\ idx' = idx /\ page' = page + 1
    /\ UNCHANGED <<toolVars, ticket_statuses, url, conv_reqs, dataset>>

(* one iteration of the while loop of fetch_tickets *)
FetchPage ==
    /\ jpc = "paging"
    /\ page <= MaxPages
    /\ \E r \in PageAnswers(page) :
        /\ searches' = Append(searches, [url |-> PaginatedUrl(url, page),
                                         page |-> page, ok |-> r.ok])
        /\ IF ~r.ok
           THEN /\ jpc' = "aborted"
                /\ job_error' = "HTTPError"
                /\ UNCHANGED <<all_tickets, pages, page, idx>>
           ELSE /\ all_tickets' = all_tickets \o Results(r.body)
                /\ pages' = Append(pages, Results(r.body))
                /\ job_error' = job_error
                /\ IF NoMorePages(Results(r.body))
                   THEN jpc' = "conversations" /\ idx' = 1 /\ page' = page
                   ELSE jpc' = "paging" /\ idx' = idx /\ page' = page + 1
    /\ UNCHANGED <<toolVars, ticket_statuses, url, conv_reqs, dataset>>

----------------------------------------------------------------------------
(* The extraction recipe: fetch_conversations and the write *)

Get(d, k) == IF Has(d, k) THEN d[k] ELSE NoneVal

(* if ticket_id: *)
HasTicketId(t) == Has(t, "id") /\ t.id # 0

Conversation ==
    [id |-> 31, body_text |-> "Have you tried turning it off and on again?",
     updated_at |-> "2024-01-01T00:00:00Z", private |-> FALSE, user_id |-> 5]

ConversationAnswers == {Failed, Answer(<<Conversation>>)}

Filtered(conv) ==
    [body_text |-> Get(conv, "body_text"), id |-> Get(conv, "id"),
     updated_at |-> Get(conv, "updated_at"), from_email |-> Get(conv, "from_email")]

FilteredConversations(convs) == [i \in DOMAIN convs |-> Filtered(convs[i])]

SetKey(d, k, v) == (k :> v) @@ d

ConversationsUrl(id) ==
    <<"https://", Domain, "/api/v2/tickets/", id, "/conversations">>

WithConversationsUnset(t, r) ==
    IF r.ok THEN SetKey(t, "conversations", FilteredConversations(r.body)) ELSE t

(* the try / except around the request of one ticket *)
WithConversations(t, r) ==
    SetKey(t, "conversations",
           IF r.ok THEN FilteredConversations(r.body) ELSE <<>>)

(* one iteration of the for loop, the ticket has an id *)
FetchConversation ==
    /\ jpc = "conversations"
    /\ idx <= Len(all_tickets)
    /\ HasTicketId(all_tickets[idx])
    /\ \E r \in ConversationAnswers :
        /\ conv_reqs' = Append(conv_reqs,
                [url |-> ConversationsUrl(all_tickets[idx].id),
                 ticket_id |-> all_tickets[idx].id, ok |-> r.ok])
        /\ all_tickets' = [all_tickets EXCEPT ![idx] = WithConversations(@, r)]
    /\ idx' = idx + 1
    /\ UNCHANGED <<toolVars, jpc, ticket_statuses, url, page, searches, pages,
                   dataset, job_error>>

(* one iteration of the for loop, the ticket has no id *)
SkipTicket ==
    /\ jpc = "conversations"
    /\ idx <= Len(all_tickets)
    /\ ~HasTicketId(all_tickets[idx])
    /\ idx' = idx + 1
    /\ UNCHANGED <<toolVars, jpc, ticket_statuses, url, page, all_tickets,
                   searches, pages, conv_reqs, dataset, job_error>>

(* fetch_conversations returns; the data frame is written *)
WriteDataset ==
    /\ jpc = "conversations"
    /\ idx > Len(all_tickets)
    /\ dataset' = Append(dataset, all_tickets)
    /\ jpc' = "written"
    /\ UNCHANGED <<toolVars, ticket_statuses, url, page, all_tickets, searches,
                   pages, idx, conv_reqs, job_error>>

ToolOff ==
    /\ ticket_types = <<>>
    /\ pc = "off"
    /\ args = <<>>
    /\ http = <<>>
    /\ ticket = <<>>
    /\ result = <<>>
    /\ outcome = NoOutcome

(* the recipe's configuration is loaded *)
InitJob ==
    /\ ToolOff
    /\ jpc = "start"
    /\ ticket_statuses \in StatusLists
    /\ url = <<>>
    /\ page = 0
    /\ all_tickets = <<>>
    /\ searches = <<>>
    /\ pages = <<>>
    /\ idx = 0
    /\ conv_reqs = <<>>
    /\ dataset = <<>>
    /\ job_error = NoneVal

NextJob ==
    \/ StartFetch
    \/ FetchPage
    \/ FetchConversation
    \/ SkipTicket
    \/ WriteDataset

SpecJob == InitJob /\ [][NextJob]_vars

----------------------------------------------------------------------------
(* Properties of the tool *)

Started == pc \notin {"idle", "off"}

IsGated(a) ==
    \/ a.action \in {"close_ticket", "update_ticket_priority"}
    \/ a.action = "get_tickets" /\ Has(a, "search_by") /\ a.search_by = "id"

(* the authorizing GET of a gated action was answered with a ticket *)
Fetched == Started /\ IsGated(args) /\ http # <<>> /\ http[1].ok

NoMutation == \A i \in DOMAIN http : http[i].method \notin {"PUT", "POST"}

IsError(text) == outcome.kind = "ValueError" /\ outcome.msg[1] = text

IsEmailMismatch ==
    IsError("The provided requester email does not match the ticket's requester email")

SucceededWith(message) ==
    /\ pc = "done"
    /\ args.action \in {"close_ticket", "update_ticket_priority"}
    /\ outcome.kind = "ok"
    /\ outcome.output.message = message

(* C1: in a gated action (lookup by id, close_ticket, update_ticket_priority)
   whose fields are valid, when the ticket the GET returned carries a
   requester whose email differs from the supplied requester_email, the
   invocation has ended in the email-mismatch error and the log holds no PUT
   and no POST. *)
C1_MismatchIsAuthorizationError ==
    (Fetched /\ ~RequesterIsNone(ticket)
        /\ RequesterEmail(ticket) # args.requester_email)
    => (pc = "done" /\ IsEmailMismatch /\ NoMutation /\ Len(http) = 1)

C1_Witness ==
    /\ Fetched
    /\ args.action = "close_ticket"
    /\ args.requester_email = "ann@acme.io"
    /\ Has(ticket, "requester")
    /\ Has(ticket.requester, "email")
    /\ ticket.requester.email = "bob@acme.io"
    /\ Has(ticket, "status") /\ ticket.status = 2
    /\ IsEmailMismatch

(* C2: an invocation of close_ticket or update_ticket_priority that returned
   its success result issued exactly three requests, each answered with
   success: the GET of tickets/{id}, then one PUT to tickets/{id}, then one
   POST to tickets/{id}/notes. *)
C2_SuccessIsGetPutPost ==
    (SucceededWith("Ticket closed successfully")
        \/ SucceededWith("Ticket priority updated successfully"))
    => /\ Len(http) = 3
       /\ \A i \in 1..3 : http[i].ok
       /\ http[1].method = "GET"
       /\ http[1].endpoint = <<"tickets", args.ticket_id>>
       /\ http[2].method = "PUT"
       /\ http[2].endpoint = <<"tickets", args.ticket_id>>
       /\ http[3].method = "POST"
       /\ http[3].endpoint = <<"tickets", args.ticket_id, "notes">>

C2_Witness ==
    /\ SucceededWith("Ticket priority updated successfully")
    /\ Len(http) = 3

(* C3: close_ticket on a fetched ticket of status 5 whose requester email
   equals the supplied one has ended after the GET alone, with the
   "already closed" result carrying the fetched ticket. *)
C3_AlreadyClosedIsReadOnly ==
    (Fetched /\ args.action = "close_ticket"
        /\ ~RequesterIsNone(ticket)
        /\ RequesterEmail(ticket) = args.requester_email
        /\ Has(ticket, "status") /\ ticket.status = 5)
    => /\ pc = "done"
       /\ Len(http) = 1
       /\ NoMutation
       /\ outcome.kind = "ok"
       /\ outcome.output.message = "Ticket is already closed"
       /\ outcome.output.ticket = ticket
       /\ outcome.output.ticket_id = ticket.id

C3_Witness ==
    /\ Fetched
    /\ args.action = "close_ticket"
    /\ args.requester_email \in Emails
    /\ RequesterEmail(ticket) = args.requester_email
    /\ Has(ticket, "status") /\ ticket.status = 5
    /\ ticket.id # args.ticket_id
    /\ pc = "done"

(* C4: update_ticket_priority whose priority equals the priority of the
   fetched ticket, the requester email being equal to the supplied one, has
   ended after the GET alone, with the "already at the requested level"
   result carrying the fetched ticket. *)
C4_SamePriorityIsReadOnly ==
    (Fetched /\ args.action = "update_ticket_priority"
        /\ ~RequesterIsNone(ticket)
        /\ RequesterEmail(ticket) = args.requester_email
        /\ Has(ticket, "priority") /\ ticket.priority = args.priority)
    => /\ pc = "done"
       /\ Len(http) = 1
       /\ NoMutation
       /\ outcome.kind = "ok"
       /\ outcome.output.message = "Ticket priority is already at the requested level"
       /\ outcome.output.ticket = ticket
       /\ outcome.output.ticket_id = ticket.id

C4_Witness ==
    /\ Fetched
    /\ args.action = "update_ticket_priority"
    /\ args.requester_email \in Emails
    /\ RequesterEmail(ticket) = args.requester_email
    /\ Has(ticket, "priority") /\ ticket.priority = 3 /\ args.priority = 3
    /\ pc = "done"

DispatchedActions == {"create_ticket", "get_tickets", "close_ticket",
                      "update_ticket_priority"}

RequiredFields(a) ==
    IF a.action = "create_ticket"
        THEN {"subject", "description", "requester_email", "name"}
    ELSE IF a.action = "close_ticket" THEN {"ticket_id", "requester_email"}
    ELSE IF a.action = "update_ticket_priority"
        THEN {"ticket_id", "requester_email", "priority"}
    ELSE IF a.action = "get_tickets" THEN
        {"search_by"} \cup
        (IF Has(a, "search_by") /\ a.search_by = "id"
            THEN {"ticket_id", "requester_email"}
         ELSE IF Has(a, "search_by") /\ a.search_by = "requester_email"
            THEN {"requester_email"}
         ELSE {})
    ELSE {}

OutOfRange(a, types) ==
    \/ /\ a.action = "create_ticket"
       /\ \/ Has(a, "priority") /\ a.priority \notin 1..4
          \/ Has(a, "status") /\ a.status \notin 2..5
          \/ Has(a, "type") /\ \A i \in DOMAIN types : types[i] # a.type
    \/ /\ a.action = "update_ticket_priority"
       /\ Has(a, "priority") /\ a.priority \notin 1..4
    \/ /\ a.action = "get_tickets"
       /\ Has(a, "search_by") /\ a.search_by \notin {"id", "requester_email"}

ValidationTexts ==
    {"Missing required field: ",
     "Priority must be one of: 1 (Low), 2 (Medium), 3 (High), 4 (Urgent)",
     "Status must be one of: 2 (Open), 3 (Pending), 4 (Resolved), 5 (Closed)",
     "Type must be one of: ",
     "Invalid search_by value: "}

(* C7: an input of one of the tool's actions that misses a field the action
   requires, or carries an enum value out of range, has ended in a
   validation error without any request. *)
C7_InvalidInputIssuesNoRequest ==
    (Started /\ args.action \in DispatchedActions
        /\ (~(RequiredFields(args) \subseteq DOMAIN args)
            \/ OutOfRange(args, ticket_types)))
    => /\ pc = "done"
       /\ outcome.kind = "ValueError"
       /\ outcome.msg[1] \in ValidationTexts
       /\ http = <<>>

C7_Witness ==
    /\ pc = "done"
    /\ args.action = "create_ticket"
    /\ RequiredFields(args) \subseteq DOMAIN args
    /\ Has(args, "priority") /\ args.priority = 5
    /\ IsError("Priority must be one of: 1 (Low), 2 (Medium), 3 (High), 4 (Urgent)")
    /\ http = <<>>

RequestOrder(a) ==
    IF a.action = "create_ticket" THEN <<"POST">>
    ELSE IF a.action = "get_tickets" THEN <<"GET">>
    ELSE IF a.action \in {"close_ticket", "update_ticket_priority"}
        THEN <<"GET", "PUT", "POST">>
    ELSE <<>>

(* C9: the requests of an action are issued in the order of the action, each
   at most once; a request is issued only when every request before it was
   answered with success; a request answered with a failure ends the action
   in the exception of the request. *)
C9_FailureEndsTheAction ==
    Started =>
       /\ Len(http) <= Len(RequestOrder(args))
       /\ \A i \in DOMAIN http : http[i].method = RequestOrder(args)[i]
       /\ \A i \in DOMAIN http : i < Len(http) => http[i].ok
       /\ (http # <<>> /\ ~http[Len(http)].ok)
            => (pc = "done" /\ outcome.kind = "RequestException")

C9_Witness ==
    /\ pc = "done"
    /\ args.action = "close_ticket"
    /\ Len(http) = 2
    /\ http[2].method = "PUT"
    /\ ~http[2].ok
    /\ outcome.kind = "RequestException"

IsInvalidAction == IsError("Invalid action: ") /\ outcome.msg[2] = args.action

SpecActionNames == {"create_ticket", "get_ticket_by_id", "get_tickets_by_email",
                    "close_ticket", "update_ticket_priority"}

ValidInput(a, types) ==
    RequiredFields(a) \subseteq DOMAIN a /\ ~OutOfRange(a, types)

(* C10 as stated: the action names are create_ticket, get_ticket_by_id,
   get_tickets_by_email, close_ticket and update_ticket_priority; every other
   action value ends in the unknown-action error, none of the five does, and
   get_ticket_by_id with ticket_id and requester_email performs the GET of
   the ticket. *)
C10_FiveActionNames ==
    Started =>
       /\ args.action \notin SpecActionNames
            => (pc = "done" /\ IsInvalidAction /\ http = <<>>)
       /\ args.action \in SpecActionNames => ~IsInvalidAction
       /\ (pc = "done" /\ args.action = "get_ticket_by_id"
            /\ {"ticket_id", "requester_email"} \subseteq DOMAIN args)
            => (http # <<>> /\ http[1].method = "GET"
                /\ http[1].endpoint = <<"tickets", args.ticket_id>>)

(* C10, amended: the action names are create_ticket, get_tickets,
   close_ticket and update_ticket_priority, and get_tickets selects by
   search_by between the GET of one ticket (id) and the GET of the list
   filtered by email (requester_email).  Every other action value ends in
   the "Invalid action" error without any request, every other search_by
   value in the "Invalid search_by value" error without any request; a valid
   input of a dispatched action issues the first request of its own
   operation. *)
C10_FourActionNames ==
    Started =>
       /\ args.action \notin DispatchedActions
            => (pc = "done" /\ IsInvalidAction /\ http = <<>>)
       /\ args.action \in DispatchedActions => ~IsInvalidAction
       /\ (args.action = "get_tickets" /\ Has(args, "search_by")
            /\ args.search_by \notin {"id", "requester_email"})
            => (pc = "done" /\ IsError("Invalid search_by value: ") /\ http = <<>>)
       /\ (pc = "done" /\ args.action \in DispatchedActions
            /\ ValidInput(args, ticket_types)) => http # <<>>
       /\ http # <<>> =>
            /\ ValidInput(args, ticket_types)
            /\ IF args.action = "create_ticket"
                THEN http[1].method = "POST" /\ http[1].endpoint = <<"tickets">>
               ELSE IF args.action = "get_tickets" /\ args.search_by = "requester_email"
                THEN /\ http[1].method = "GET"
                     /\ http[1].endpoint = <<"tickets">>
                     /\ DOMAIN http[1].params = {"email"}
                     /\ http[1].params.email = args.requester_email
               ELSE /\ http[1].method = "GET"
                    /\ http[1].endpoint = <<"tickets", args.ticket_id>>
                    /\ DOMAIN http[1].params = {"include"}
                    /\ http[1].params.include = "requester"
       /\ \A i \in DOMAIN http : http[i].method = "PUT" =>
            http[i].data = IF args.action = "close_ticket"
                           THEN [status |-> 5]
                           ELSE [priority |-> args.priority]

C10_Witness ==
    /\ pc = "done"
    /\ args.action = "get_ticket_by_id"
    /\ {"ticket_id", "requester_email"} \subseteq DOMAIN args
    /\ IsInvalidAction
    /\ http = <<>>

----------------------------------------------------------------------------
(* Properties of the recipe *)

RECURSIVE Flatten(_)
Flatten(ps) == IF ps = <<>> THEN <<>> ELSE Head(ps) \o Flatten(Tail(ps))

RECURSIVE IdsOf(_)
IdsOf(ts) ==
    IF ts = <<>> THEN <<>>
    ELSE (IF Has(Head(ts), "id") /\ Head(ts).id # 0 THEN <<Head(ts).id>> ELSE <<>>)
         \o IdsOf(Tail(ts))

Returned == jpc \in {"conversations", "written"}

(* C5: the pages requested are 1, 2, 3, ... without a gap or a repeat;
   fetch_tickets has returned exactly when the last page answered carried an
   empty result list, no page before it did, and then the requests are one
   more than the non-empty pages; the tickets it accumulates are the
   concatenation of the result lists in the order of the requests. *)
C5_PaginationStopsAtFirstEmptyPage ==
    /\ \A i \in DOMAIN searches :
            searches[i].page = i /\ searches[i].url = url \o <<"&page=", i>>
    /\ \A i \in DOMAIN pages : i < Len(pages) => Len(pages[i]) > 0
    /\ Returned <=> (pages # <<>> /\ Len(pages[Len(pages)]) = 0)
    /\ Returned => Len(searches) = Len(pages)
    /\ (jpc = "paging" \/ (jpc = "conversations" /\ idx = 1))
            => all_tickets = Flatten(pages)
    /\ Len(all_tickets) = Len(Flatten(pages))

C5_Witness ==
    /\ jpc = "conversations"
    /\ idx = 1
    /\ Len(searches) = 3
    /\ Len(pages[1]) = 2 /\ Len(pages[2]) = 1 /\ Len(pages[3]) = 0
    /\ Len(all_tickets) = 3

(* C6: whatever conversation requests fail, fetch_conversations keeps every
   ticket, once and in order, changing nothing but the conversations key; a
   ticket whose request failed carries conversations = <<>>; the requests go
   on after a failure, so that at the write one request was issued for every
   ticket with an id, in order, and the frame written is the full list. *)
C6_ConversationFailureIsIsolated ==
    Returned =>
       /\ Len(all_tickets) = Len(Flatten(pages))
       /\ \A i \in DOMAIN all_tickets :
            /\ DOMAIN all_tickets[i] \ {"conversations"} = DOMAIN Flatten(pages)[i]
            /\ \A k \in DOMAIN Flatten(pages)[i] :
                    all_tickets[i][k] = Flatten(pages)[i][k]
       /\ Len(conv_reqs) <= Len(IdsOf(all_tickets))
       /\ \A j \in DOMAIN conv_reqs :
            /\ conv_reqs[j].ticket_id = IdsOf(all_tickets)[j]
            /\ ~conv_reqs[j].ok =>
                \A i \in DOMAIN all_tickets :
                    (Has(all_tickets[i], "id")
                        /\ all_tickets[i].id = conv_reqs[j].ticket_id)
                    => (Has(all_tickets[i], "conversations")
                        /\ all_tickets[i].conversations = <<>>)
       /\ jpc = "written" =>
            /\ Len(conv_reqs) = Len(IdsOf(all_tickets))
            /\ dataset = <<all_tickets>>

C6_Witness ==
    /\ jpc = "written"
    /\ Len(conv_reqs) >= 3
    /\ ~conv_reqs[1].ok
    /\ conv_reqs[2].ok
    /\ ~conv_reqs[3].ok
    /\ Len(dataset[1]) = Len(conv_reqs) + 1

(* C8: once a search request was answered with a failure the job is aborted:
   that request is the last one, no conversation request is issued and
   nothing is written, whatever the earlier pages accumulated. *)
C8_SearchFailureAbortsTheJob ==
    (\E i \in DOMAIN searches : ~searches[i].ok)
    => /\ jpc = "aborted"
       /\ job_error = "HTTPError"
       /\ ~searches[Len(searches)].ok
       /\ \A i \in DOMAIN searches : i < Len(searches) => searches[i].ok
       /\ conv_reqs = <<>>
       /\ dataset = <<>>

C8_Witness ==
    /\ jpc = "aborted"
    /\ Len(searches) = 3
    /\ ~searches[3].ok
    /\ Len(all_tickets) >= 2
    /\ dataset = <<>>

----------------------------------------------------------------------------
(* The shape of the value a successful invocation returns *)

Returns == pc = "done" /\ outcome.kind = "ok"

HelpdeskUrl(id) == <<"https://", "acme.freshdesk.com", "/helpdesk/tickets/", id>>

IsDocument(item, id) ==
    /\ DOMAIN item = {"type", "title", "url"}
    /\ item.type = "SIMPLE_DOCUMENT"
    /\ item.title = <<"Ticket #", id>>
    /\ item.url = HelpdeskUrl(id)

IsListResult == Has(outcome.output, "tickets")

(* output of a single-ticket action: message, ticket_id, url, ticket *)
SingleOutputOk ==
    /\ DOMAIN outcome.output = {"message", "ticket_id", "url", "ticket"}
    /\ outcome.output.ticket_id = outcome.output.ticket.id
    /\ outcome.output.url = HelpdeskUrl(outcome.output.ticket_id)
    /\ Len(outcome.sources) = 1
    /\ DOMAIN outcome.sources[1] = {"toolCallDescription", "items"}
    /\ Len(outcome.sources[1].items) = 1
    /\ IsDocument(outcome.sources[1].items[1], outcome.output.ticket_id)

(* output of the lookup by requester email: message, tickets; each ticket
   carries its id and url, and the source carries one document per ticket *)
ListOutputOk ==
    /\ DOMAIN outcome.output = {"message", "tickets"}
    /\ \A i \in DOMAIN outcome.output.tickets :
            /\ Has(outcome.output.tickets[i], "id")
            /\ Has(outcome.output.tickets[i], "url")
            /\ outcome.output.tickets[i].url = HelpdeskUrl(outcome.output.tickets[i].id)
    /\ Len(outcome.sources) = 1
    /\ DOMAIN outcome.sources[1] = {"toolCallDescription", "items"}
    /\ Len(outcome.sources[1].items) = Len(outcome.output.tickets)
    /\ \A i \in DOMAIN outcome.output.tickets :
            IsDocument(outcome.sources[1].items[i], outcome.output.tickets[i].id)

(* C11 as stated: every invocation that returns carries, in output, a
   message, at least one ticket identifier and a URL of the form
   https://<domain>/helpdesk/tickets/<id>, and every entry of sources has a
   description and a SIMPLE_DOCUMENT item with title and URL of that form;
   the lookup by requester email that finds no ticket included. *)
C11_EveryResultCarriesIdAndUrl ==
    Returns =>
       /\ Has(outcome.output, "message")
       /\ IF IsListResult
          THEN ListOutputOk /\ Len(outcome.output.tickets) >= 1
          ELSE SingleOutputOk
       /\ \A j \in DOMAIN outcome.sources :
            /\ Has(outcome.sources[j], "toolCallDescription")
            /\ Len(outcome.sources[j].items) >= 1

(* C11, amended: every invocation that returns carries a message in output
   and exactly one source with a description.  A single-ticket action
   (create, lookup by id, close, update priority) carries the ticket id and
   the URL https://<domain>/helpdesk/tickets/<id> in output and one
   SIMPLE_DOCUMENT item with title and that URL.  The lookup by requester
   email carries no ticket_id and no url at the top of output: it carries
   the list of tickets, each with its id and its URL of that form, and one
   SIMPLE_DOCUMENT item per ticket; when it finds no ticket the list and
   the items are empty. *)
C11_ResultShape ==
    Returns =>
       /\ Has(outcome.output, "message")
       /\ DOMAIN outcome = {"kind", "output", "sources"}
       /\ IsListResult <=>
            (args.action = "get_tickets" /\ args.search_by = "requester_email")
       /\ IF IsListResult THEN ListOutputOk ELSE SingleOutputOk

C11_Witness ==
    /\ Returns
    /\ args.action = "get_tickets"
    /\ args.search_by = "requester_email"
    /\ outcome.output.tickets = <<>>
    /\ outcome.sources[1].items = <<>>
    /\ http[1].ok

----------------------------------------------------------------------------
(* The text of the search URL *)

(* the text of a tuple of strings *)
RECURSIVE Text(_)
Text(parts) == IF parts = <<>> THEN "" ELSE Head(parts) \o Text(Tail(parts))

(* the text of a paginated URL: its parts, then the page number *)
UrlText(u) == Text(SubSeq(u, 1, Len(u) - 1)) \o ToString(u[Len(u)])

(* status:<name> for each name in order, joined by " OR " *)
RECURSIVE Predicate(_)
Predicate(names) ==
    IF names = <<>> THEN ""
    ELSE IF Len(names) = 1 THEN "status:" \o names[1]
    ELSE Predicate(SubSeq(names, 1, Len(names) - 1))
         \o " OR " \o "status:" \o names[Len(names)]

(* C12: on every page request the query parameter is, between the double
   quotes the search endpoint requires, the terms status:<name> of exactly
   the given names, in the given order, joined by " OR "; it is the empty
   string between the quotes when no names are given; page i carries the
   same predicate followed by page=i. *)
C12_QueryIsOrOfStatusTerms ==
    /\ jpc # "start" =>
        Text(url) = "https://acme.freshdesk.com/api/v2/search/tickets?query=\""
                    \o Predicate(ticket_statuses) \o "\""
    /\ \A i \in DOMAIN searches :
        UrlText(searches[i].url) =
            "https://acme.freshdesk.com/api/v2/search/tickets?query=\""
            \o Predicate(ticket_statuses) \o "\"&page=" \o ToString(i)

C12_Witness ==
    /\ ticket_statuses = <<"pending", "open">>
    /\ Len(searches) = 2
    /\ searches[1].ok
    /\ UrlText(searches[2].url) =
        "https://acme.freshdesk.com/api/v2/search/tickets?query=\"status:pending OR status:open\"&page=2"

----------------------------------------------------------------------------
(* Authorization when the fetched ticket carries no requester email *)

(* the fetched ticket has no requester record, or a requester without an
   email (the key is absent or its value is null) *)
NoRequesterEmail(t) ==
    \/ ~Has(t, "requester")
    \/ t.requester = NullObj
    \/ ~Has(t.requester, "email")
    \/ t.requester.email = NoneVal

(* C13: in a gated action, when the fetched ticket has no requester record
   or no requester email, the invocation has ended in the email-mismatch
   error and the log holds no PUT and no POST, whatever was supplied under
   requester_email, null included. *)
C13_MissingRequesterEmailIsRefused ==
    (Fetched /\ NoRequesterEmail(ticket))
    => (pc = "done" /\ IsEmailMismatch /\ NoMutation)

====
